---- MODULE Spec2Model ----
(***************************************************************************)
(* Assmat Pro API (src/main.py, src/schemas.py): the request handlers over  *)
(* the four document collections user, announcement, contract and          *)
(* scheduleentry.  The storage module (database: db, create_document,      *)
(* get_documents) is imported by main.py but is not part of the sources;   *)
(* it is modelled from section 4.1 of the specification.                   *)
(*                                                                         *)
(* Encoding of Python values:                                              *)
(*   Optional[str]   <<>> is None, <<s>> is the string s                   *)
(*   document        a function from field names to values, "_id" added    *)
(*   float           an integer (no claim depends on fractions)            *)
(***************************************************************************)
EXTENDS Integers, Sequences, FiniteSets, TLC

VARIABLES
    db,             \* "up": connection established at process start; "down": db is None
    user,           \* collection `user`, in insertion order
    announcement,   \* collection `announcement`
    contract,       \* collection `contract`
    scheduleentry,  \* collection `scheduleentry`
    call,           \* auth callbacks in flight: worker -> [pc, payload, existing]
    gw,             \* what the last step did to storage: [called, error]
    resp            \* the last step's response: [op, req, status, body]

vars == <<db, user, announcement, contract, scheduleentry, call, gw, resp>>
colls == <<user, announcement, contract, scheduleentry>>

-----------------------------------------------------------------------------
(* Python values *)

None == <<>>
Some(s) == <<s>>

\* truth value of an Optional[str]: None and "" are falsy
Truthy(o) == o # None /\ o[1] # ""

\* `o or d`
OrElse(o, d) == IF Truthy(o) THEN o[1] ELSE d

Min(a, b) == IF a < b THEN a ELSE b

\* s[:n]
Take(s, n) == SubSeq(s, 1, Min(n, Len(s)))

-----------------------------------------------------------------------------
(* Entity schemas (src/schemas.py) *)

\* pydantic EmailStr: the strings the email validator accepts
WellFormedEmails == {"a@x.fr", "b@x.fr"}
IsEmail(s) == s \in WellFormedEmails

\* Role = Literal["parent", "assistant"]
Role == {"parent", "assistant"}

Weekdays == {"monday", "tuesday", "wednesday", "thursday", "friday", "saturday", "sunday"}

\* class AuthCallback(BaseModel): role is Optional[str], not Role
ValidAuthCallback(p) == IsEmail(p.email)

\* class User(BaseModel)
ValidUser(u) ==
    /\ IsEmail(u.email)
    /\ u.role \in Role

\* class Announcement(BaseModel)
ValidAnnouncement(a) ==
    /\ IsEmail(a.author_email)
    /\ a.author_role \in Role

\* variant: Contract without the ge=0 bounds of its numeric fields
ValidContractNoBounds(c) ==
    /\ IsEmail(c.parent_email)
    /\ IsEmail(c.assistant_email)

\* class Contract(BaseModel)
ValidContract(c) ==
    /\ IsEmail(c.parent_email)
    /\ IsEmail(c.assistant_email)
    /\ c.hours_per_week >= 0
    /\ c.hourly_rate >= 0
    /\ c.paid_vacation_days >= 0

\* class ScheduleEntry(BaseModel)
ValidScheduleEntry(e) ==
    /\ IsEmail(e.user_email)
    /\ e.weekday \in Weekdays

-----------------------------------------------------------------------------
(* Storage gateway (module database, modelled from the specification) *)

StorageUnavailable == "StorageUnavailable"
StorageWriteError == "StorageWriteError"
StorageReadError == "StorageReadError"

\* `if db` / `db is not None`
Connected == db = "up"

\* the ways an insert can end: None is success, Some(m) the exception raised
InsertOutcomes ==
    IF Connected THEN {None, Some(StorageWriteError)} ELSE {Some(StorageUnavailable)}

\* the ways a find can end
FindOutcomes ==
    IF Connected THEN {None, Some(StorageReadError)} ELSE {Some(StorageUnavailable)}

\* the identifier the store generates for the next document
NewId == Len(user) + Len(announcement) + Len(contract) + Len(scheduleentry) + 1

\* exact-match filter: every field of the filter equals the document's
Match(doc, filter) ==
    \A f \in DOMAIN filter : f \in DOMAIN doc /\ doc[f] = filter[f]

\* insert-one-document: appends the payload with its generated identifier
create_document(coll, data) == Append(coll, ("_id" :> NewId) @@ data)

\* find-documents: the matching documents in the store's order, at most limit
get_documents(coll, filter, limit) ==
    Take(SelectSeq(coll, LAMBDA d : Match(d, filter)), limit)

\* pymongo find_one: the first matching document, or None
find_one(coll, filter) ==
    LET m == SelectSeq(coll, LAMBDA d : Match(d, filter))
    IN  IF m = <<>> THEN None ELSE Some(m[1])

-----------------------------------------------------------------------------
(* Responses *)

Respond(op, req, status, body) ==
    [op |-> op, req |-> req, status |-> status, body |-> body]

\* FastAPI answers a request that fails its schema before the handler runs
client_fault(op, req) == Respond(op, req, 422, [detail |-> "validation"])

\* variant: the exception is swallowed and the request answered as a success
server_fault_swallowed(op, req, e) == Respond(op, req, 200, [detail |-> e])

\* except Exception as e: raise HTTPException(status_code=500, detail=str(e))
server_fault(op, req, e) == Respond(op, req, 500, [detail |-> e])

NoCall == [called |-> FALSE, error |-> None]
Called(out) == [called |-> TRUE, error |-> out]

\* it["_id"] = str(it.get("_id")) for every item
Stringified(items) ==
    [i \in 1..Len(items) |-> [items[i] EXCEPT !["_id"] = ToString(@)]]

-----------------------------------------------------------------------------
(* POST /auth/callback *)

\* the user dict built on entry
auth_user(payload) ==
    [ name       |-> OrElse(payload.name, "Utilisateur"),
      email      |-> payload.email,
      role       |-> OrElse(payload.role, "parent"),
      avatar_url |-> payload.avatar_url,
      provider   |-> payload.provider,
      is_active  |-> TRUE ]

\* variant: the lookup filters on the name instead of the email
auth_query_by_name(payload) == ("name" :> OrElse(payload.name, "Utilisateur"))

\* the filter of the lookup: {"email": payload.email}
auth_query(payload) == ("email" :> payload.email)

\* variant: `if existing`
must_create_inverted(existing) == existing # None

\* `if not existing`
must_create(existing) == existing = None

Idle == [pc |-> "idle", payload |-> None, existing |-> None]

\* a step that ends without a response: the request is still in flight
Pending(op, req) == Respond(op, req, 0, None)

\* validation and the lookup: existing = db["user"].find_one(...) if db else None
AuthLookup(w, payload) ==
    /\ call[w].pc = "idle"
    /\ IF ~ValidAuthCallback(payload)
       THEN /\ resp' = client_fault("auth_callback", payload)
            /\ gw' = NoCall
            /\ UNCHANGED call
       ELSE IF ~Connected
       THEN /\ call' = [call EXCEPT ![w] =
                          [pc |-> "found", payload |-> payload, existing |-> None]]
            /\ gw' = NoCall
            /\ resp' = Pending("auth_callback", payload)
       ELSE \E out \in FindOutcomes :
            /\ gw' = Called(out)
            /\ IF out = None
               THEN /\ call' = [call EXCEPT ![w] =
                                  [pc |-> "found", payload |-> payload,
                                   existing |-> find_one(user, auth_query(payload))]]
                    /\ resp' = Pending("auth_callback", payload)
               ELSE /\ resp' = server_fault("auth_callback", payload, out[1])
                    /\ UNCHANGED call
    /\ UNCHANGED <<db, user, announcement, contract, scheduleentry>>

\* if not existing: create_document("user", user); return {"ok": True, "email": ...}
AuthCreate(w) ==
    /\ call[w].pc = "found"
    /\ LET payload == call[w].payload
           ok == Respond("auth_callback", payload, 200,
                         [ok |-> TRUE, email |-> payload.email])
       IN  IF must_create(call[w].existing)
           THEN \E out \in InsertOutcomes :
                /\ gw' = Called(out)
                /\ IF out = None
                   THEN /\ user' = create_document(user, auth_user(payload))
                        /\ resp' = ok
                   ELSE /\ resp' = server_fault("auth_callback", payload, out[1])
                        /\ UNCHANGED user
           ELSE /\ gw' = NoCall
                /\ resp' = ok
                /\ UNCHANGED user
    /\ call' = [call EXCEPT ![w] = Idle]
    /\ UNCHANGED <<db, announcement, contract, scheduleentry>>

-----------------------------------------------------------------------------
(* Announcements *)

\* POST /announcements
CreateAnnouncement(data) ==
    /\ IF ~ValidAnnouncement(data)
       THEN /\ resp' = client_fault("create_announcement", data)
            /\ gw' = NoCall
            /\ UNCHANGED announcement
       ELSE \E out \in InsertOutcomes :
            /\ gw' = Called(out)
            /\ IF out = None
               THEN /\ announcement' = create_document(announcement, data)
                    /\ resp' = Respond("create_announcement", data, 200,
                                       [id |-> ToString(NewId)])
               ELSE /\ resp' = server_fault("create_announcement", data, out[1])
                    /\ UNCHANGED announcement
    /\ UNCHANGED <<db, user, contract, scheduleentry, call>>

\* variant: query["city"] = city without the `if city` guard
announcement_query_unguarded(city, role) ==
    ("city" :> city) @@
    (IF Truthy(role) THEN ("author_role" :> role[1]) ELSE <<>>)

\* query = {}; if city: query["city"] = city; if role: query["author_role"] = role
announcement_query(city, role) ==
    (IF Truthy(city) THEN ("city" :> city) ELSE <<>>) @@
    (IF Truthy(role) THEN ("author_role" :> role[1]) ELSE <<>>)

\* limit: int = 50 (None: the request gives no limit)
DefaultLimit == 50

limit_or_default(limit) == IF limit = None THEN DefaultLimit ELSE limit[1]

\* variant: the limit passed on is one too large
announcement_items_one_more(city, role, limit) ==
    get_documents(announcement, announcement_query(city, role),
                  limit_or_default(limit) + 1)

\* items = get_documents("announcement", query, limit)
announcement_items(city, role, limit) ==
    get_documents(announcement, announcement_query(city, role),
                  limit_or_default(limit))

\* GET /announcements
ListAnnouncements(city, role, limit) ==
    /\ LET req == [city |-> city, role |-> role, limit |-> limit]
       IN  \E out \in FindOutcomes :
           /\ gw' = Called(out)
           /\ resp' = IF out = None
                      THEN Respond("list_announcements", req, 200,
                                   Stringified(announcement_items(city, role, limit)))
                      ELSE server_fault("list_announcements", req, out[1])
    /\ UNCHANGED <<db, user, announcement, contract, scheduleentry, call>>

-----------------------------------------------------------------------------
(* Contracts *)

\* POST /contracts
CreateContract(data) ==
    /\ IF ~ValidContract(data)
       THEN /\ resp' = client_fault("create_contract", data)
            /\ gw' = NoCall
            /\ UNCHANGED contract
       ELSE \E out \in InsertOutcomes :
            /\ gw' = Called(out)
            /\ IF out = None
               THEN /\ contract' = create_document(contract, data)
                    /\ resp' = Respond("create_contract", data, 200,
                                       [id |-> ToString(NewId)])
               ELSE /\ resp' = server_fault("create_contract", data, out[1])
                    /\ UNCHANGED contract
    /\ UNCHANGED <<db, user, announcement, scheduleentry, call>>

\* variant: the role is ignored
contract_field_always_assistant(role) == "assistant_email"

\* variant: "assistant" selects assistant_email, every other role parent_email
contract_field_enum(role) ==
    IF role = "assistant" THEN "assistant_email" ELSE "parent_email"

\* field = "parent_email" if role == "parent" else "assistant_email"
contract_field(role) ==
    IF role = "parent" THEN "parent_email" ELSE "assistant_email"

\* items = get_documents("contract", {field: str(email)}, 100)
ContractLimit == 100

contract_items(email, role) ==
    get_documents(contract, (contract_field(role) :> email), ContractLimit)

\* GET /contracts
ListContracts(email, role) ==
    /\ LET req == [email |-> email, role |-> role]
       IN  IF ~IsEmail(email)
           THEN /\ resp' = client_fault("list_contracts", req)
                /\ gw' = NoCall
           ELSE \E out \in FindOutcomes :
                /\ gw' = Called(out)
                /\ resp' = IF out = None
                           THEN Respond("list_contracts", req, 200,
                                        Stringified(contract_items(email, role)))
                           ELSE server_fault("list_contracts", req, out[1])
    /\ UNCHANGED <<db, user, announcement, contract, scheduleentry, call>>

\* the last of the eight lines drawn: f"Notes: {data.notes or '-'}"
pdf_notes(data) == OrElse(data.notes, "-")

\* variant: the rendered contract is also stored
ContractPdfStoring(data) ==
    /\ ValidContract(data)
    /\ contract' = create_document(contract, data)
    /\ gw' = Called(None)
    /\ resp' = Respond("contract_pdf", data, 200,
                       [filename |-> "contrat_assmat_pro.pdf", notes |-> pdf_notes(data)])
    /\ UNCHANGED <<db, user, announcement, scheduleentry, call>>

\* POST /contracts/pdf: renders the submitted fields, no storage call
\* (the canvas calls of the rendering engine are not modelled)
ContractPdf(data) ==
    /\ resp' = IF ~ValidContract(data)
               THEN client_fault("contract_pdf", data)
               ELSE Respond("contract_pdf", data, 200,
                            [filename |-> "contrat_assmat_pro.pdf",
                             notes |-> pdf_notes(data)])
    /\ gw' = NoCall
    /\ UNCHANGED <<db, user, announcement, contract, scheduleentry, call>>

-----------------------------------------------------------------------------
(* Weekly schedule *)

\* POST /schedule
AddSchedule(entry) ==
    /\ IF ~ValidScheduleEntry(entry)
       THEN /\ resp' = client_fault("add_schedule", entry)
            /\ gw' = NoCall
            /\ UNCHANGED scheduleentry
       ELSE \E out \in InsertOutcomes :
            /\ gw' = Called(out)
            /\ IF out = None
               THEN /\ scheduleentry' = create_document(scheduleentry, entry)
                    /\ resp' = Respond("add_schedule", entry, 200,
                                       [id |-> ToString(NewId)])
               ELSE /\ resp' = server_fault("add_schedule", entry, out[1])
                    /\ UNCHANGED scheduleentry
    /\ UNCHANGED <<db, user, announcement, contract, call>>

\* items = get_documents("scheduleentry", {"user_email": str(user_email)}, 200)
ScheduleLimit == 200

schedule_items(user_email) ==
    get_documents(scheduleentry, ("user_email" :> user_email), ScheduleLimit)

\* GET /schedule
GetSchedule(user_email) ==
    /\ LET req == [user_email |-> user_email]
       IN  IF ~IsEmail(user_email)
           THEN /\ resp' = client_fault("get_schedule", req)
                /\ gw' = NoCall
           ELSE \E out \in FindOutcomes :
                /\ gw' = Called(out)
                /\ resp' = IF out = None
                           THEN Respond("get_schedule", req, 200,
                                        Stringified(schedule_items(user_email)))
                           ELSE server_fault("get_schedule", req, out[1])
    /\ UNCHANGED <<db, user, announcement, contract, scheduleentry, call>>

-----------------------------------------------------------------------------
(* Calculators, health and diagnostics: no storage write *)

\* POST /calc/salary: gross = hours * rate
CalcSalary(data) ==
    /\ resp' = Respond("calc_salary", data, 200, [gross |-> data.hours * data.rate])
    /\ gw' = NoCall
    /\ UNCHANGED <<db, user, announcement, contract, scheduleentry, call>>

\* POST /calc/leave: remaining = accrued_days - days_taken
CalcLeave(data) ==
    /\ resp' = Respond("calc_leave", data, 200,
                       [remaining |-> data.accrued_days - data.days_taken])
    /\ gw' = NoCall
    /\ UNCHANGED <<db, user, announcement, contract, scheduleentry, call>>

\* POST /calc/balance: balance = credits - debits
CalcBalance(data) ==
    /\ resp' = Respond("calc_balance", data, 200,
                       [balance |-> data.credits - data.debits])
    /\ gw' = NoCall
    /\ UNCHANGED <<db, user, announcement, contract, scheduleentry, call>>

\* GET /
ReadRoot ==
    /\ resp' = Respond("read_root", None, 200, [name |-> "Assmat Pro API", status |-> "ok"])
    /\ gw' = NoCall
    /\ UNCHANGED <<db, user, announcement, contract, scheduleentry, call>>

\* db.list_collection_names(): the collections that hold a document
CollectionNames ==
    SelectSeq(<<"user", "announcement", "contract", "scheduleentry">>,
              LAMBDA n : CASE n = "user" -> user # <<>>
                           [] n = "announcement" -> announcement # <<>>
                           [] n = "contract" -> contract # <<>>
                           [] OTHER -> scheduleentry # <<>>)

\* GET /test: never raises, every fault becomes a status string
TestDatabase ==
    /\ IF ~Connected
       THEN /\ gw' = NoCall
            /\ resp' = Respond("test_database", None, 200,
                   [database |-> "Available but not initialized",
                    connection_status |-> "Not Connected", collections |-> <<>>])
       ELSE \E out \in FindOutcomes :
            /\ gw' = Called(out)
            /\ resp' = IF out = None
                       THEN Respond("test_database", None, 200,
                              [database |-> "Connected & Working",
                               connection_status |-> "Connected",
                               collections |-> Take(CollectionNames, 10)])
                       ELSE Respond("test_database", None, 200,
                              [database |-> "Connected but Error",
                               connection_status |-> "Not Connected",
                               collections |-> <<>>])
    /\ UNCHANGED <<db, user, announcement, contract, scheduleentry, call>>

-----------------------------------------------------------------------------
(* Requests *)

Workers == {"w1", "w2"}

AuthPayload(email, name, role) ==
    [provider |-> "google", email |-> email, name |-> name,
     avatar_url |-> None, role |-> role]

AuthInputs ==
    { AuthPayload("a@x.fr", None, None),
      AuthPayload("a@x.fr", Some("Zoe"), Some("assistant")),
      AuthPayload("b@x.fr", Some(""), Some("admin")),
      AuthPayload("b@x.fr", None, Some("")),
      AuthPayload("not-an-email", None, None) }

AnnouncementPayload(email, role, city) ==
    [title |-> "Garde", description |-> "Temps plein", author_email |-> email,
     author_role |-> role, city |-> city, availability |-> None]

AnnouncementInputs ==
    { AnnouncementPayload("a@x.fr", "parent", Some("Paris")),
      AnnouncementPayload("b@x.fr", "assistant", None),
      AnnouncementPayload("a@x.fr", "admin", None),
      AnnouncementPayload("not-an-email", "parent", None) }

ListAnnouncementInputs ==
    { <<None, None, Some(1)>>, <<None, None, None>>, <<Some(""), Some(""), None>>,
      <<Some("Paris"), None, None>>, <<Some("Nice"), None, None>>,
      <<None, Some("assistant"), None>>, <<Some("Paris"), Some("assistant"), None>> }

ContractPayload(parent, assistant, hours, rate, notes) ==
    [parent_email |-> parent, assistant_email |-> assistant, child_name |-> "Lea",
     start_date |-> "2024-09-01", hours_per_week |-> hours, hourly_rate |-> rate,
     paid_vacation_days |-> 25, notes |-> notes]

ContractInputs ==
    { ContractPayload("a@x.fr", "b@x.fr", 40, 12, None),
      ContractPayload("b@x.fr", "a@x.fr", 0, 0, Some("mercredi")),
      ContractPayload("a@x.fr", "b@x.fr", 40, -1, None),
      ContractPayload("a@x.fr", "b@x.fr", -1, 12, None),
      ContractPayload("a@x.fr", "not-an-email", 40, 12, None) }

Emails == {"a@x.fr", "b@x.fr", "not-an-email"}

RoleInputs == {"parent", "assistant", "admin", ""}

SchedulePayload(email, weekday) ==
    [user_email |-> email, weekday |-> weekday, start_time |-> "08:00",
     end_time |-> "17:00", note |-> None]

ScheduleInputs ==
    { SchedulePayload("a@x.fr", "monday"),
      SchedulePayload("b@x.fr", "sunday"),
      SchedulePayload("a@x.fr", "noday"),
      SchedulePayload("not-an-email", "monday") }

SalaryInputs == {[hours |-> 10, rate |-> 15]}
LeaveInputs == {[accrued_days |-> 5, days_taken |-> 8]}
BalanceInputs == {[credits |-> 100, debits |-> 40]}

-----------------------------------------------------------------------------
(* The service under concurrent requests *)

Init ==
    /\ db \in {"up", "down"}
    /\ user = <<>>
    /\ announcement = <<>>
    /\ contract = <<>>
    /\ scheduleentry = <<>>
    /\ call = [w \in Workers |-> Idle]
    /\ gw = NoCall
    /\ resp = Respond("none", None, 0, None)

\* documents stored, and inserts that requests in flight may still make
MaxDocs == 2
Stored == Len(user) + Len(announcement) + Len(contract) + Len(scheduleentry)
InFlight == Cardinality({w \in Workers : call[w].pc = "found"})
Room == Stored + InFlight < MaxDocs

AllIdle == \A w \in Workers : call[w].pc = "idle"

Reads ==
    \/ \E a \in ListAnnouncementInputs : ListAnnouncements(a[1], a[2], a[3])
    \/ \E email \in Emails, role \in RoleInputs : ListContracts(email, role)
    \/ \E email \in Emails : GetSchedule(email)
    \/ \E data \in ContractInputs : ContractPdf(data)
    \/ \E data \in SalaryInputs : CalcSalary(data)
    \/ \E data \in LeaveInputs : CalcLeave(data)
    \/ \E data \in BalanceInputs : CalcBalance(data)
    \/ ReadRoot
    \/ TestDatabase

Creates ==
    \/ \E data \in AnnouncementInputs : Room /\ CreateAnnouncement(data)
    \/ \E data \in ContractInputs : Room /\ CreateContract(data)
    \/ \E entry \in ScheduleInputs : Room /\ AddSchedule(entry)

Next ==
    \/ \E w \in Workers, payload \in AuthInputs : Room /\ AuthLookup(w, payload)
    \/ \E w \in Workers : AuthCreate(w)
    \/ Creates
    \/ Reads

Spec == Init /\ [][Next]_vars

\* auth callbacks one after another: a callback starts only when none is in flight
SeqNext ==
    \/ \E w \in Workers, payload \in AuthInputs :
           AllIdle /\ Room /\ AuthLookup(w, payload)
    \/ \E w \in Workers : AuthCreate(w)
    \/ Creates
    \/ Reads

SeqSpec == Init /\ [][SeqNext]_vars

-----------------------------------------------------------------------------
(* The service under a bulk load: one collection is filled far enough to    *)
(* pass the limit of its list operation.  A load run reads and writes a     *)
(* single collection: its first BulkSeed documents are any valid payloads,  *)
(* every later one is the same bulk payload.                                *)

BulkSeed == 1
BulkAnnouncements == 60
BulkContracts == 101
BulkSchedule == 201

OnlyAnnouncement == contract = <<>> /\ scheduleentry = <<>>
OnlyContract == announcement = <<>> /\ scheduleentry = <<>>
OnlySchedule == announcement = <<>> /\ contract = <<>>

BulkAnnouncementInputs ==
    IF Len(announcement) < BulkSeed THEN AnnouncementInputs
    ELSE { AnnouncementPayload("a@x.fr", "parent", Some("Paris")) }

BulkListAnnouncementInputs ==
    { <<None, None, Some(1)>>, <<None, None, None>>, <<Some(""), None, None>>,
      <<Some("Nice"), None, None>>, <<Some("Paris"), Some("parent"), None>> }

BulkContractInputs ==
    IF Len(contract) < BulkSeed THEN ContractInputs
    ELSE { ContractPayload("a@x.fr", "b@x.fr", 40, 12, None) }

BulkScheduleInputs ==
    IF Len(scheduleentry) < BulkSeed THEN ScheduleInputs
    ELSE { SchedulePayload("a@x.fr", "monday") }

BulkNext ==
    \/ \E data \in BulkAnnouncementInputs :
           /\ OnlyAnnouncement
           /\ Len(announcement) < BulkAnnouncements
           /\ CreateAnnouncement(data)
    \/ \E a \in BulkListAnnouncementInputs :
           OnlyAnnouncement /\ ListAnnouncements(a[1], a[2], a[3])
    \/ \E data \in BulkContractInputs :
           /\ OnlyContract
           /\ Len(contract) < BulkContracts
           /\ CreateContract(data)
    \/ \E email \in Emails, role \in RoleInputs :
           OnlyContract /\ ListContracts(email, role)
    \/ \E entry \in BulkScheduleInputs :
           /\ OnlySchedule
           /\ Len(scheduleentry) < BulkSchedule
           /\ AddSchedule(entry)
    \/ \E email \in Emails : OnlySchedule /\ GetSchedule(email)

BulkSpec == Init /\ [][BulkNext]_vars

-----------------------------------------------------------------------------
(* Properties *)

EmailOf(w) == call[w].payload.email
Finishes(w) == call[w].pc = "found" /\ call'[w].pc = "idle"
HasUser(coll, email) == \E i \in 1..Len(coll) : coll[i]["email"] = email
Ids(items) == {items[i]["_id"] : i \in 1..Len(items)}

\* C1: with auth callbacks run one after another and storage available, the
\* `user` collection never holds two documents with the same email: a
\* callback for an email not yet stored inserts one document, a callback for
\* a stored email inserts nothing, and both return {ok: true, email}.
C1_OneUserPerEmail ==
    /\ [](\A i, j \in 1..Len(user) : user[i]["email"] = user[j]["email"] => i = j)
    /\ [][\A w \in Workers :
            Finishes(w) /\ gw'.error = None =>
              /\ resp'.status = 200
              /\ resp'.body = [ok |-> TRUE, email |-> EmailOf(w)]
              /\ IF HasUser(user, EmailOf(w))
                 THEN user' = user
                 ELSE /\ Len(user') = Len(user) + 1
                      /\ SubSeq(user', 1, Len(user)) = user
                      /\ user'[Len(user')]["email"] = EmailOf(w)]_vars

\* a later callback for a stored email has answered ok without touching storage
C1_Witness ==
    /\ resp.op = "auth_callback" /\ resp.status = 200
    /\ Connected /\ ~gw.called
    /\ Len(user) = 1 /\ user[1]["email"] = resp.req.email
    /\ user[1]["name"] # OrElse(resp.req.name, "Utilisateur")

\* C2: the insert of an auth callback is decided by its own earlier lookup
\* alone, whatever the collection holds by then: a callback whose lookup
\* found nothing inserts its document even if another callback has stored
\* the same email in between, so two documents with one email are reachable.
C2_InsertFollowsOwnLookup ==
    [][\A w \in Workers :
         Finishes(w) /\ gw'.error = None =>
           IF call[w].existing = None
           THEN /\ Len(user') = Len(user) + 1
                /\ user'[Len(user')]["email"] = EmailOf(w)
           ELSE user' = user]_vars

\* two documents of the `user` collection carry the same email
C2_Witness ==
    \E i, j \in 1..Len(user) : i # j /\ user[i]["email"] = user[j]["email"]

Listed(op) == resp.op = op /\ resp.status = 200

\* the stored contracts with the given parent, in stored order, identifiers as strings
ContractsOfParent(email) ==
    Stringified(SelectSeq(contract, LAMBDA d : d["parent_email"] = email))

ContractsOfAssistant(email) ==
    Stringified(SelectSeq(contract, LAMBDA d : d["assistant_email"] = email))

\* C3 as stated: list contracts with role="parent" and email=E returns
\* exactly the stored contracts whose parent_email is E, all of them.
C3_AllOfParent ==
    Listed("list_contracts") /\ resp.req.role = "parent" =>
        resp.body = ContractsOfParent(resp.req.email)

\* C3 as amended: list contracts with role="parent" and email=E returns the
\* first 100 stored contracts whose parent_email is E (all of them when at
\* most 100 match) and no others, never one matching only assistant_email=E.
C3_FirstHundredOfParent ==
    Listed("list_contracts") /\ resp.req.role = "parent" =>
        /\ resp.body = Take(ContractsOfParent(resp.req.email), 100)
        /\ \A i \in 1..Len(resp.body) : resp.body[i]["parent_email"] = resp.req.email

\* contracts of parent E were listed while a contract with only assistant E is stored
C3_Witness ==
    /\ Listed("list_contracts") /\ resp.req.role = "parent"
    /\ resp.body # <<>>
    /\ \E i \in 1..Len(contract) :
          /\ contract[i]["assistant_email"] = resp.req.email
          /\ contract[i]["parent_email"] # resp.req.email

\* the announcements a listing's filters select
AnnouncementsSelected(req) ==
    SelectSeq(announcement,
              LAMBDA d : /\ Truthy(req.city) => d["city"] = req.city
                         /\ Truthy(req.role) => d["author_role"] = req.role[1])

RequestedLimit(req) == IF req.limit = None THEN 50 ELSE req.limit[1]

C4_WitnessContracts ==
    Listed("list_contracts") /\ Len(contract) > 100 /\ Len(resp.body) = 100

C4_WitnessSchedule ==
    Listed("get_schedule") /\ Len(scheduleentry) > 200 /\ Len(resp.body) = 200

Created == resp.op = "create_announcement" /\ resp.status = 200
ListedNext == resp'.op = "list_announcements" /\ resp'.status = 200
NoFilter(req) == ~Truthy(req.city) /\ ~Truthy(req.role)
NoSuchCity(req) ==
    Truthy(req.city) /\ \A i \in 1..Len(announcement) : announcement[i]["city"] # req.city

\* C5 as stated: a list announcements with no city and no role filter (and
\* no limit given) that follows a successful create announcement contains
\* the created announcement; a list whose city filter matches no stored
\* announcement is empty.
C5_ListContainsCreated ==
    [][/\ Created /\ ListedNext /\ NoFilter(resp'.req) /\ resp'.req.limit = None
            => resp.body.id \in Ids(resp'.body)
       /\ ListedNext /\ NoSuchCity(resp'.req) => resp'.body = <<>>]_vars

\* C5 as amended: the list that follows a successful create announcement,
\* with no city and no role filter, contains the created announcement
\* exactly when at most limit (50 when none is given) announcements are
\* stored, the created one included; a list whose non-empty city filter
\* matches no stored announcement is empty.
C5_ListContainsCreatedWithinLimit ==
    [][/\ Created /\ ListedNext /\ NoFilter(resp'.req)
            => (resp.body.id \in Ids(resp'.body)
                   <=> Len(announcement) <= RequestedLimit(resp'.req))
       /\ ListedNext /\ NoSuchCity(resp'.req) => resp'.body = <<>>]_vars

\* an unfiltered listing returned the announcement stored last, which has a city
C5_Witness ==
    /\ Listed("list_announcements") /\ NoFilter(resp.req)
    /\ announcement # <<>>
    /\ announcement[Len(announcement)]["city"] # None
    /\ ToString(announcement[Len(announcement)]["_id"]) \in Ids(resp.body)

\* a city-filtered listing matched nothing although announcements are stored
C5_WitnessNoSuchCity ==
    Listed("list_announcements") /\ NoSuchCity(resp.req) /\ announcement # <<>>

\* the request of a response violates the schema of its endpoint
ViolatesSchema(r) ==
    CASE r.op = "auth_callback" -> ~IsEmail(r.req.email)
      [] r.op = "create_announcement" ->
            \/ ~IsEmail(r.req.author_email)
            \/ r.req.author_role \notin {"parent", "assistant"}
      [] r.op \in {"create_contract", "contract_pdf"} ->
            \/ ~IsEmail(r.req.parent_email)
            \/ ~IsEmail(r.req.assistant_email)
            \/ r.req.hours_per_week < 0
            \/ r.req.hourly_rate < 0
            \/ r.req.paid_vacation_days < 0
      [] r.op = "add_schedule" ->
            \/ ~IsEmail(r.req.user_email)
            \/ r.req.weekday \notin {"monday", "tuesday", "wednesday", "thursday",
                                     "friday", "saturday", "sunday"}
      [] r.op = "list_contracts" -> ~IsEmail(r.req.email)
      [] r.op = "get_schedule" -> ~IsEmail(r.req.user_email)
      [] OTHER -> FALSE

\* C6: a request whose payload violates its schema is answered with a client
\* fault, never a server fault or a success, without any storage call, and
\* leaves every collection as it was.
C6_InvalidIsClientFault ==
    [][ViolatesSchema(resp') =>
          /\ resp'.status = 422
          /\ ~gw'.called
          /\ UNCHANGED colls]_vars

\* a Contract with hourly_rate = -1 was submitted and refused
C6_Witness ==
    /\ resp.op = "create_contract" /\ resp.req.hourly_rate = -1
    /\ resp.status = 422

StorageOps ==
    {"auth_callback", "create_announcement", "list_announcements",
     "create_contract", "list_contracts", "add_schedule", "get_schedule"}

\* C7: in every handler that touches storage, a failed storage call ends the
\* request with a server fault carrying the failure's message and adds no
\* document; with no connection established, no such request succeeds.
C7_StorageFailureIsServerFault ==
    [][resp'.op \in StorageOps =>
          /\ gw'.error # None =>
                /\ resp'.status = 500
                /\ resp'.body = [detail |-> gw'.error[1]]
                /\ UNCHANGED colls
          /\ ~Connected /\ resp'.status \notin {0, 422} =>
                /\ resp'.status = 500
                /\ gw'.error # None
                /\ UNCHANGED colls]_vars

\* an auth callback failed on the insert because no connection was established
C7_Witness ==
    /\ ~Connected
    /\ resp.op = "auth_callback" /\ resp.status = 500
    /\ gw.called /\ gw.error # None
    /\ resp.body = [detail |-> gw.error[1]]

C7_WitnessTransient ==
    /\ Connected
    /\ resp.op = "list_announcements" /\ resp.status = 500
    /\ gw.error # None

IsPrefix(old, new) == Len(old) <= Len(new) /\ SubSeq(new, 1, Len(old)) = old

\* C8: collections are append-only: a step keeps every stored document in
\* place with its field values and adds at most one document, to `user`
\* only in an auth callback, to `announcement`, `contract` and
\* `scheduleentry` only in their create operations; every other operation
\* leaves all four collections unchanged.
C8_AppendOnly ==
    [][/\ IsPrefix(user, user') /\ IsPrefix(announcement, announcement')
       /\ IsPrefix(contract, contract') /\ IsPrefix(scheduleentry, scheduleentry')
       /\ Len(user') + Len(announcement') + Len(contract') + Len(scheduleentry')
             <= Stored + 1
       /\ user' # user => resp'.op = "auth_callback"
       /\ announcement' # announcement => resp'.op = "create_announcement"
       /\ contract' # contract => resp'.op = "create_contract"
       /\ scheduleentry' # scheduleentry => resp'.op = "add_schedule"]_vars

\* a PDF was rendered for a contract that is not stored, other documents being stored
C8_Witness ==
    /\ resp.op = "contract_pdf" /\ resp.status = 200
    /\ contract = <<>>
    /\ user # <<>>

\* C9: every document of the `user` collection satisfies the User schema:
\* its role is "parent" or "assistant", its name is non-empty and is_active
\* is true.
C9_UsersSatisfySchema ==
    \A i \in 1..Len(user) :
        /\ user[i]["role"] \in {"parent", "assistant"}
        /\ user[i]["name"] # ""
        /\ user[i]["is_active"] = TRUE

\* C10: list contracts selects its filter field from the role alone:
\* role="parent" filters on parent_email, every other role value on
\* assistant_email; no role value is refused, and the result is the first
\* 100 contracts matching that one field, whatever the other field holds.
C10_FieldFromRoleAlone ==
    resp.op = "list_contracts" /\ IsEmail(resp.req.email) =>
        /\ resp.status # 422
        /\ resp.status = 200 =>
              resp.body = Take(IF resp.req.role = "parent"
                               THEN ContractsOfParent(resp.req.email)
                               ELSE ContractsOfAssistant(resp.req.email), 100)

\* a role outside parent|assistant returned a contract matched on assistant_email only
C10_Witness ==
    /\ Listed("list_contracts")
    /\ resp.req.role \notin {"parent", "assistant"}
    /\ resp.body # <<>>
    /\ \A i \in 1..Len(resp.body) :
          /\ resp.body[i]["assistant_email"] = resp.req.email
          /\ resp.body[i]["parent_email"] # resp.req.email
    /\ \E i \in 1..Len(contract) : contract[i]["assistant_email"] # resp.req.email

====
